---- MODULE Spec2Model ----
(***************************************************************************)
(* Model of the prompt-enhancement service of the video generator:         *)
(* EnhancedAIService (text client, orchestrator, job simulator),           *)
(* GeminiVisionService (vision client) and the VideoGenerationApp          *)
(* controller that drives them.  Strings are sequences of one-character    *)
(* strings; an async function is cut at its await points.                  *)
(***************************************************************************)
EXTENDS Integers, Sequences, FiniteSets, TLC

(* ---------------- bounds of the model ---------------- *)

\* number of generateEnhancedVideoAI calls issued on the service instance
MaxCalls == 2
\* number of direct enhancePromptWithOpenAI calls issued on the instance
MaxTextCalls == 2
\* number of direct analyzeImageWithText calls issued on the instance
MaxVisionCalls == 2
\* number of handleGeneration runs that pass validation
MaxAppCalls == 2
\* number of invocations of the vision intermediary
MaxInvocations == 2
\* number of loads of the results view that find the same stored result
MaxLoads == 2

(* ---------------- strings ---------------- *)

\* a value no string operation can produce (JavaScript undefined / null)
NoValue == <<"<none>">>

\* String.prototype.toLowerCase, on the characters the model uses
LowerChar(ch) ==
    CASE ch = "A" -> "a"
      [] ch = "B" -> "b"
      [] OTHER -> ch

ToLowerCase(s) == [i \in 1..Len(s) |-> LowerChar(s[i])]

RECURSIVE TrimStart(_)
TrimStart(s) ==
    IF s = <<>> THEN <<>>
    ELSE IF Head(s) = " " THEN TrimStart(Tail(s)) ELSE s

RECURSIVE TrimEnd(_)
TrimEnd(s) ==
    IF s = <<>> THEN <<>>
    ELSE IF s[Len(s)] = " " THEN TrimEnd(SubSeq(s, 1, Len(s) - 1)) ELSE s

\* String.prototype.trim
Trim(s) == TrimEnd(TrimStart(s))

\* String.prototype.substring(0, n)
Substring0(s, n) == SubSeq(s, 1, IF Len(s) < n THEN Len(s) ELSE n)

(* ---------------- Map ---------------- *)

MapHas(m, k) == k \in DOMAIN m
MapGet(m, k) == m[k]
MapSet(m, k, v) == [x \in (DOMAIN m) \cup {k} |-> IF x = k THEN v ELSE m[x]]
EmptyMap == [x \in {} |-> NoValue]

(* ---------------- inputs ---------------- *)

\* prompts handed to the clients: the first two differ only in case and
\* surrounding blanks, the third has another cache key
Prompts == { <<" ", "A">>, <<"a">>, <<"b">> }

\* prompts handed to the orchestrator
GeneratePrompts == { <<" ", "A">>, <<"a">> }

\* a payload of 101 characters: the first 100 are the same for every last
LongPayload(last) == [i \in 1..101 |-> IF i <= 100 THEN "A" ELSE last]

\* image payloads (data URLs or bare base64 text), by name
ImageNames == {"img1", "img2"}
ImageData(n) ==
    CASE n = "img1" -> <<"d", "1">>
      [] n = "img2" -> <<"d", "2">>
      [] n = "img3" -> LongPayload("1")
      [] n = "img4" -> LongPayload("2")
      [] n = "img5" -> <<"c">>
      [] OTHER -> <<"b", "_", "c">>

\* the images argument of generateEnhancedVideoAI
ImageLists == { <<>>, <<"img2", "img1">> }

\* Math.random() yields n / RandDenom for 0 <= n < RandDenom
RandDenom == 2 * 3000
\* samples of Math.random() for the timer delay
DelaySamples == {1}
\* samples of Math.random() for the failure draw of the job simulator
FailSamples == {299, 300}
\* samples of Math.random() for the heuristic phrase
PhraseSamples == {0, 1500, 3000, 5999}

(* ---------------- upstream behaviour ---------------- *)

\* what the text-completion endpoint can answer to one request
TextResponses ==
    { [kind |-> "ok", content |-> <<" ", "x">>],
      [kind |-> "ok", content |-> <<"y">>],
      [kind |-> "http_error", content |-> NoValue],
      [kind |-> "network_error", content |-> NoValue],
      [kind |-> "malformed", content |-> NoValue] }

\* what the vision intermediary can answer to one request
VisionResponses ==
    { [kind |-> "ok", enhancedPrompt |-> <<"v">>],
      [kind |-> "ok", enhancedPrompt |-> <<"w">>],
      [kind |-> "http_error", enhancedPrompt |-> NoValue],
      [kind |-> "network_error", enhancedPrompt |-> NoValue],
      [kind |-> "unavailable", enhancedPrompt |-> NoValue] }

\* the answers the orchestrator is exercised with: one success and one
\* failure of each client
SomeTextResponses ==
    { r \in TextResponses : r.kind = "http_error" \/ r.content = <<" ", "x">> }
SomeVisionResponses ==
    { r \in VisionResponses : r.kind = "unavailable" \/ r.enhancedPrompt = <<"v">> }
SomePhraseSamples == {5999}

\* samples of Math.random() for the timer delay at both ends of its range
AllDelaySamples == {0, 1, 2, 3000, 5998, 5999}

\* the prompt the job simulator is exercised with
JobPrompts == { <<"a">> }

(* ---------------- state ---------------- *)

VARIABLES
    isProcessing,   \* EnhancedAIService.isProcessing
    currentJob,     \* EnhancedAIService.currentJob
    openaiCache,    \* EnhancedAIService.openaiCache
    visionCache,    \* GeminiVisionService.cache
    apiKey,         \* window.CONFIG.OPENAI_API_KEY is set
    calls,          \* the calls issued so far, in the order they started
    app,            \* VideoGenerationApp, AppState and the page
    session,        \* sessionStorage['lastGenerationResult']
    location,       \* window.location.href
    resultHandler,  \* ResultPageHandler of the results view
    invocations     \* the invocations of the vision intermediary (exports.handler)

vars == <<isProcessing, currentJob, openaiCache, visionCache, apiKey, calls,
          app, session, location, resultHandler, invocations>>

(* ---------------- call records ---------------- *)

NoData == [originalPrompt |-> NoValue, enhancedPrompt |-> NoValue,
           images |-> <<>>, aiSource |-> "unset"]

NoResult == [success |-> FALSE]

\* the frame of one call: the arguments and locals of the code, the await it
\* is suspended at, how it settled, and what it did (observation only)
NewCall(op, fromApp, p, imgs) ==
    [ op |-> op,                  \* the entry point: generate, enhance, analyze
      fromApp |-> fromApp,        \* awaited by handleGeneration
      pc |-> "start",
      userPrompt |-> p,
      images |-> imgs,
      aiSource |-> "unset",
      enhancedPrompt |-> NoValue,
      site |-> "none",            \* the await of the orchestrator: vision, fallback, text
      pending |-> NoValue,        \* value of the promise awaited, when already known
      generationData |-> NoData,
      processingTime |-> 0,       \* timer delay, in half milliseconds
      outcome |-> "pending",      \* pending, resolved, rejected
      result |-> NoResult,
      error |-> "",
      processingAtSettle |-> FALSE,  \* isProcessing as the call settled
      visionCalls |-> 0, visionRequests |-> 0, visionOutcome |-> "none",
      visionKind |-> "none", visionValue |-> NoValue,
      textCalls |-> 0, textRequests |-> 0, textArg |-> NoValue,
      textWay |-> "none", textKind |-> "none", textValue |-> NoValue,
      textKeyed |-> TRUE,         \* the credential was set when the text client began
      textHit |-> FALSE,          \* the cache held the prompt when the text client began
      textCanReturn |-> {},       \* what the text client could return when it began
      textAfter |-> {},           \* direct text calls finished when this one began
      visionAfter |-> {},         \* direct vision calls that had returned when this one began
      clientsAfterText |-> 0,     \* client invocations after the text client finished
      jobFailed |-> FALSE,        \* the job simulator drew a failure
      cancelled |-> FALSE,        \* cancelGeneration ran while the call was in flight
      delivered |-> FALSE ]       \* handleGeneration stored and forwarded the outcome

TextFinished(c) == calls[c].textWay # "none"

(* ---------------- EnhancedAIService: text client ---------------- *)

\* the cache key without lowercasing
TextCacheKeyCaseSensitive(userPrompt) == Trim(userPrompt)

\* part_000:15
TextCacheKey(userPrompt) == Trim(ToLowerCase(userPrompt))

\* part_000:75-80
enhancements == << <<"cinematic style">>, <<"professional lighting">>,
                   <<"smooth camera movement">>, <<"high quality">> >>

\* part_000:74-84, rnd / RandDenom being the value of Math.random()
basicPromptEnhancement(userPrompt, rnd) ==
    LET randomEnhancement == enhancements[((rnd * Len(enhancements)) \div RandDenom) + 1]
    IN  userPrompt \o <<",", " ">> \o randomEnhancement

\* the outputs the heuristic is specified to have for a prompt
HeuristicOutputs(userPrompt) ==
    { userPrompt \o <<",", " ">> \o phrase :
        phrase \in { <<"cinematic style">>, <<"professional lighting">>,
                     <<"smooth camera movement">>, <<"high quality">> } }

\* every value enhancePromptWithOpenAI(userPrompt) can resolve with in the
\* current state of the cache and the configuration
TextCanReturn(userPrompt) ==
    LET cacheKey == TextCacheKey(userPrompt) IN
    IF MapHas(openaiCache, cacheKey) THEN { MapGet(openaiCache, cacheKey) }
    ELSE IF ~apiKey THEN {}
    ELSE { Trim(r.content) : r \in {x \in TextResponses : x.kind = "ok"} }
         \cup HeuristicOutputs(userPrompt)

\* the credential check left out
TextFirstStepKeyUnchecked(userPrompt) ==
    IF MapHas(openaiCache, TextCacheKey(userPrompt)) THEN "textCached"
    ELSE "textFetch"

\* part_000:16-24: the cache is consulted, then the credential
TextFirstStep(userPrompt) ==
    IF MapHas(openaiCache, TextCacheKey(userPrompt)) THEN "textCached"
    ELSE IF ~apiKey THEN "textThrow"
    ELSE "textFetch"

\* part_000:12-53: enhancePromptWithOpenAI up to its first suspension
InvokeText(call, userPrompt) ==
    LET cacheKey == TextCacheKey(userPrompt)
        step == TextFirstStep(userPrompt)
        base == [call EXCEPT !.textCalls = @ + 1,
                             !.clientsAfterText = IF call.textWay # "none" THEN @ + 1 ELSE @,
                             !.textArg = userPrompt,
                             !.textKeyed = apiKey,
                             !.textHit = MapHas(openaiCache, Trim(ToLowerCase(call.userPrompt))),
                             !.textCanReturn = TextCanReturn(call.userPrompt),
                             !.pc = step]
    IN  IF step = "textCached"
        THEN [base EXCEPT !.pending = MapGet(openaiCache, cacheKey)]
        ELSE IF step = "textThrow"
        THEN base
        ELSE [base EXCEPT !.textRequests = @ + 1]

\* the error of a non-2xx response thrown outside the try block
TextOutcomeErrorEscapes(resp) ==
    CASE resp.kind = "ok" -> "upstream"
      [] resp.kind = "http_error" -> "threw"
      [] OTHER -> "heuristic"

\* part_000:55-71: how the call ends for a response of the given kind; every
\* failure is caught at line 68
TextOutcome(resp) ==
    IF resp.kind = "ok" THEN "upstream" ELSE "heuristic"

\* part_000:57: the message of the error thrown inside the try block
TextError(resp) ==
    IF resp.kind = "http_error" THEN "OpenAI API error" ELSE "Failed to fetch"

\* part_000:61 and 70: the value the call returns for a response
TextValue(userPrompt, resp, rndPhrase) ==
    IF resp.kind = "ok" THEN Trim(resp.content)
    ELSE basicPromptEnhancement(userPrompt, rndPhrase)

\* the cache written with whatever the call returns
TextCacheAfterAnyResult(cacheKey, resp, value) == MapSet(openaiCache, cacheKey, value)

\* the cache emptied by a call that degrades to the heuristic
TextCacheAfterClearedOnFailure(cacheKey, resp, value) ==
    IF resp.kind = "ok"
    THEN MapSet(openaiCache, cacheKey, value)
    ELSE EmptyMap

\* part_000:63: what the call leaves in the cache, value being its return value
TextCacheAfter(cacheKey, resp, value) ==
    IF resp.kind = "ok"
    THEN MapSet(openaiCache, cacheKey, value)
    ELSE openaiCache

(* ---------------- EnhancedAIService: job simulator ---------------- *)

\* the random part of the delay scaled by 6000 instead of 3000
ProcessingTimeDoubled(rnd) == 2 * 3000 + 2 * rnd

\* part_000:144, in half milliseconds: 3000 + Math.random() * 3000
ProcessingTime(rnd) == 2 * 3000 + rnd

\* Math.round of a value given in half milliseconds
MathRound(halves) == (halves + 1) \div 2

\* part_000:147
SimulatedFailure(rnd) == rnd * 100 < 5 * RandDenom

\* the model label not derived from the source
MockResponseFixedModel(generationData, processingTime) ==
    [ success |-> TRUE,
      videoDetails |-> [duration |-> "30 seconds", resolution |-> "1920x1080",
                        format |-> "MP4", fileSize |-> "15.2 MB"],
      promptData |-> [ originalPrompt |-> generationData.originalPrompt,
                       enhancedPrompt |-> generationData.enhancedPrompt,
                       aiSource |-> generationData.aiSource,
                       processingTime |-> MathRound(processingTime),
                       model |-> "openai-gpt" ] ]

\* part_000:152-169
MockResponse(generationData, processingTime) ==
    [ success |-> TRUE,
      videoDetails |-> [duration |-> "30 seconds", resolution |-> "1920x1080",
                        format |-> "MP4", fileSize |-> "15.2 MB"],
      promptData |-> [ originalPrompt |-> generationData.originalPrompt,
                       enhancedPrompt |-> generationData.enhancedPrompt,
                       aiSource |-> generationData.aiSource,
                       processingTime |-> MathRound(processingTime),
                       model |-> IF generationData.aiSource = "image-vision"
                                 THEN "gemini-vision-pro" ELSE "openai-gpt" ] ]

(* ---------------- EnhancedAIService: orchestrator ---------------- *)

\* part_000:101: the routing decision
UseVision(images) == Len(images) > 0

\* the tag of line 112 assigned after every text client call
AiSourceAtTaggedFallback(site) ==
    CASE site = "vision" -> "image-vision"
      [] OTHER -> "text-only-fallback"

\* the assignment of line 112 left out
AiSourceAtNoRetag(site) ==
    CASE site = "vision" -> "image-vision"
      [] site = "fallback" -> "image-vision"
      [] OTHER -> "text-only"

\* part_000:103, 112, 116: the provenance tag of the await that returned
AiSourceAt(site) ==
    CASE site = "vision" -> "image-vision"
      [] site = "fallback" -> "text-only-fallback"
      [] OTHER -> "text-only"

\* the fallback handing over the normalised prompt
FallbackPromptNormalised(call) == Trim(ToLowerCase(call.userPrompt))

\* part_000:111: the prompt the fallback hands to the text client
FallbackPrompt(call) == call.userPrompt

\* the flag kept up while another generate call is in flight
FlagWhileOthersInFlight ==
    Cardinality({c \in 1..Len(calls) :
                    calls[c].op = "generate" /\ calls[c].outcome = "pending"}) > 1

\* the flag when the finally block is missing
FlagWithoutFinally == isProcessing

\* part_000:137-139: the flag as the finally block leaves it
FlagAfterFinally == FALSE

\* part_000:122-132: the orchestrator resumes with the enhanced prompt,
\* builds the generation record and starts the timer
StartJob(call, enhancedPrompt, rnd) ==
    [call EXCEPT !.pc = "timer",
                 !.enhancedPrompt = enhancedPrompt,
                 !.aiSource = AiSourceAt(call.site),
                 !.pending = NoValue,
                 !.generationData =
                     [ originalPrompt |-> call.userPrompt,
                       enhancedPrompt |-> enhancedPrompt,
                       images |-> call.images,
                       aiSource |-> AiSourceAt(call.site) ],
                 !.processingTime = ProcessingTime(rnd)]

\* the promise of the call left pending
SettleNever(call, outcome, result, error, flag) == call

\* the promise of the call settles; handleGeneration resumes in a later step
Settle(call, outcome, result, error, flag) ==
    [call EXCEPT !.pc = IF call.fromApp THEN "settled" ELSE "done",
                 !.pending = NoValue,
                 !.outcome = outcome, !.result = result, !.error = error,
                 !.processingAtSettle = flag]

\* the text client returned value to its caller
TextReturned(call, way, kind, value, rnd) ==
    LET seen == [call EXCEPT !.textWay = way, !.textKind = kind, !.textValue = value] IN
    IF call.op = "enhance"
    THEN Settle(seen, "resolved", NoResult, "", isProcessing)
    ELSE StartJob(seen, value, rnd)

(* ---------------- GeminiVisionService ---------------- *)

\* the key built from the whole payload
VisionCacheKeyWholeImage(imageData, userPrompt) ==
    Trim(ToLowerCase(userPrompt)) \o <<"_">> \o imageData

\* gemini-service.js:29
VisionCacheKey(imageData, userPrompt) ==
    Trim(ToLowerCase(userPrompt)) \o <<"_">> \o Substring0(imageData, 100)

\* gemini-service.js:22-52: analyzeImageWithText up to its first suspension
InvokeVision(call, imageData, userPrompt) ==
    LET cacheKey == VisionCacheKey(imageData, userPrompt)
        base == [call EXCEPT !.visionCalls = @ + 1,
                             !.clientsAfterText = IF call.textWay # "none" THEN @ + 1 ELSE @]
    IN  IF MapHas(visionCache, cacheKey)
        THEN [base EXCEPT !.pc = "visionCached",
                          !.pending = MapGet(visionCache, cacheKey)]
        ELSE [base EXCEPT !.pc = "visionFetch", !.visionRequests = @ + 1]

\* the success flag of the body left unchecked
VisionSucceedsFlagIgnored(resp) == resp.kind \in {"ok", "unavailable"}

\* gemini-service.js:54-76: whether a response makes the client return
VisionSucceeds(resp) == resp.kind = "ok"

\* gemini-service.js:56, 64: the message of the error thrown
VisionError(resp) ==
    CASE resp.kind = "http_error" -> "Server error"
      [] resp.kind = "unavailable" -> "Gemini unavailable - fallback to OpenAI"
      [] OTHER -> "Failed to fetch"

\* gemini-service.js:68: what a response leaves in the cache
VisionCacheAfter(cacheKey, resp) ==
    IF VisionSucceeds(resp)
    THEN MapSet(visionCache, cacheKey, resp.enhancedPrompt)
    ELSE visionCache


\* the vision client returned value to its caller
VisionReturned(call, kind, value, rnd) ==
    LET seen == [call EXCEPT !.visionOutcome = "returned", !.visionKind = kind,
                             !.visionValue = value] IN
    IF call.op = "analyze"
    THEN Settle(seen, "resolved", NoResult, "", isProcessing)
    ELSE StartJob(seen, value, rnd)

\* gemini-service.js:73-76 and part_000:108-113: the vision client threw
VisionThrew(call, resp) ==
    LET seen == [call EXCEPT !.visionOutcome = "threw", !.visionKind = resp.kind] IN
    IF call.op = "analyze"
    THEN Settle(seen, "rejected", NoResult, VisionError(resp), isProcessing)
    ELSE InvokeText([seen EXCEPT !.site = "fallback"], FallbackPrompt(call))

(* ---------------- steps of the service ---------------- *)

Alive == location = "create.html"

\* part_000:87-120: generateEnhancedVideoAI up to its first suspension
BeginGenerate(fromApp, userPrompt, images) ==
    LET call0 == NewCall("generate", fromApp, userPrompt, images)
        call1 == IF UseVision(images)
                 THEN InvokeVision([call0 EXCEPT !.aiSource = "image-vision",
                                                 !.site = "vision"],
                                   ImageData(images[1]), userPrompt)
                 ELSE InvokeText([call0 EXCEPT !.aiSource = "text-only",
                                               !.site = "text"],
                                 userPrompt)
    IN  /\ isProcessing' = TRUE
        /\ calls' = Append(calls, call1)

\* a script calls generateEnhancedVideoAI on the service instance
GenerateStart(userPrompt, images) ==
    /\ Alive
    /\ Len(calls) < MaxCalls
    /\ BeginGenerate(FALSE, userPrompt, images)
    /\ UNCHANGED <<currentJob, openaiCache, visionCache, apiKey, app, session, location,
                   resultHandler, invocations>>

\* a script calls enhancePromptWithOpenAI on the service instance
EnhanceStart(userPrompt) ==
    /\ Alive
    /\ Len(calls) < MaxTextCalls
    /\ calls' = Append(calls,
           [InvokeText(NewCall("enhance", FALSE, userPrompt, <<>>), userPrompt)
                EXCEPT !.textAfter = {d \in 1..Len(calls) : TextFinished(d)}])
    /\ UNCHANGED <<isProcessing, currentJob, openaiCache, visionCache, apiKey, app,
                   session, location, resultHandler, invocations>>

\* a script calls analyzeImageWithText on the vision client of the instance
AnalyzeStart(image, userPrompt) ==
    /\ Alive
    /\ Len(calls) < MaxVisionCalls
    /\ calls' = Append(calls,
           [InvokeVision(NewCall("analyze", FALSE, userPrompt, <<image>>),
                         ImageData(image), userPrompt)
                EXCEPT !.visionAfter =
                    {d \in 1..Len(calls) : calls[d].visionOutcome = "returned"}])
    /\ UNCHANGED <<isProcessing, currentJob, openaiCache, visionCache, apiKey, app,
                   session, location, resultHandler, invocations>>

\* gemini-service.js:30-33 and part_000:107: the cached description arrives
VisionCachedReturn(c, rnd) ==
    /\ Alive
    /\ calls[c].pc = "visionCached"
    /\ calls' = [calls EXCEPT ![c] =
                    VisionReturned(calls[c], "cached", calls[c].pending, rnd)]
    /\ UNCHANGED <<isProcessing, currentJob, openaiCache, visionCache, apiKey, app,
                   session, location, resultHandler, invocations>>

\* gemini-service.js:54-76 and part_000:107-113: the intermediary answered,
\* or the fetch failed
VisionResponse(c, resp, rnd) ==
    /\ Alive
    /\ calls[c].pc = "visionFetch"
    /\ visionCache' = VisionCacheAfter(
           VisionCacheKey(ImageData(calls[c].images[1]), calls[c].userPrompt), resp)
    /\ calls' = [calls EXCEPT ![c] =
           IF VisionSucceeds(resp)
           THEN VisionReturned(calls[c], resp.kind, resp.enhancedPrompt, rnd)
           ELSE VisionThrew(calls[c], resp)]
    /\ UNCHANGED <<isProcessing, currentJob, openaiCache, apiKey, app, session, location,
                   resultHandler, invocations>>

\* part_000:16-19: the cached enhancement arrives at the caller
TextCachedReturn(c, rnd) ==
    /\ Alive
    /\ calls[c].pc = "textCached"
    /\ calls' = [calls EXCEPT ![c] =
                    TextReturned(calls[c], "cached", "none", calls[c].pending, rnd)]
    /\ UNCHANGED <<isProcessing, currentJob, openaiCache, visionCache, apiKey, app,
                   session, location, resultHandler, invocations>>

\* part_000:22-24 and 134-139: the configuration error reaches the caller
TextThrow(c) ==
    /\ Alive
    /\ calls[c].pc = "textThrow"
    /\ isProcessing' = IF calls[c].op = "generate" THEN FlagAfterFinally ELSE isProcessing
    /\ calls' = [calls EXCEPT ![c] =
           Settle([calls[c] EXCEPT !.textWay = "threw"], "rejected", NoResult,
                  "OpenAI API key not configured", isProcessing')]
    /\ UNCHANGED <<currentJob, openaiCache, visionCache, apiKey, app, session, location,
                   resultHandler, invocations>>

\* part_000:55-71: the text-completion endpoint answered, or the fetch failed
TextResponse(c, resp, rndPhrase, rnd) ==
    LET value == TextValue(calls[c].textArg, resp, rndPhrase)
        escapes == TextOutcome(resp) = "threw"
    IN  /\ Alive
        /\ calls[c].pc = "textFetch"
        /\ openaiCache' = TextCacheAfter(TextCacheKey(calls[c].textArg), resp, value)
        /\ isProcessing' = IF escapes /\ calls[c].op = "generate"
                           THEN FlagAfterFinally ELSE isProcessing
        /\ calls' = [calls EXCEPT ![c] =
               IF escapes
               THEN Settle([calls[c] EXCEPT !.textWay = "threw", !.textKind = resp.kind],
                           "rejected", NoResult, TextError(resp), isProcessing')
               ELSE TextReturned(calls[c], TextOutcome(resp), resp.kind, value, rnd)]
        /\ UNCHANGED <<currentJob, visionCache, apiKey, app, session, location,
                   resultHandler, invocations>>

\* part_000:146-173 and 132-139: the timer of the job simulator fires
TimerFires(c, rnd) ==
    /\ Alive
    /\ calls[c].pc = "timer"
    /\ isProcessing' = FlagAfterFinally
    /\ calls' = [calls EXCEPT ![c] =
           IF SimulatedFailure(rnd)
           THEN Settle([calls[c] EXCEPT !.jobFailed = TRUE], "rejected", NoResult,
                       "Video generation failed: Network timeout", isProcessing')
           ELSE Settle(calls[c], "resolved",
                       MockResponse(calls[c].generationData, calls[c].processingTime),
                       "", isProcessing')]
    /\ UNCHANGED <<currentJob, openaiCache, visionCache, apiKey, app, session, location,
                   resultHandler, invocations>>

\* part_000:177-181
cancelJob ==
    /\ Alive
    /\ isProcessing' = FALSE
    /\ currentJob' = "null"
    /\ UNCHANGED <<openaiCache, visionCache, apiKey, calls, app, session, location,
                   resultHandler, invocations>>

\* config.js:4: the credential of window.CONFIG is set or cleared
SetApiKey(present) ==
    /\ Alive
    /\ apiKey # present
    /\ apiKey' = present
    /\ UNCHANGED <<isProcessing, currentJob, openaiCache, visionCache, calls, app,
                   session, location, resultHandler, invocations>>

(* ---------------- VideoGenerationApp ---------------- *)

\* what the user can type into the description field
DescriptionValues ==
    { <<" ">>,
      <<"t", "o", "o", " ", "s", "h", "o", "r", "t">>,
      <<" ", "A", " ", "d", "o", "g", " ", "r", "u", "n", "s">> }

\* what the user can upload
UploadValues == { <<"img1">> }

\* script.js:425: JSON.stringify of a job outcome
JSONStringify(result) == [json |-> result]

NoBlob == [json |-> NoResult]

\* script.js:466: JSON.parse of a stored result
JSONParse(blob) == blob.json

\* every stored result passing for present
StoredResultAlwaysPresent(storedResult) == TRUE

\* script.js:465: the truthiness test on what getItem returned
StoredResultPresent(storedResult) == storedResult # NoBlob

\* script.js:74-82 and 289-295: the state of a freshly loaded input view
NewApp ==
    [ isGenerating |-> FALSE, lastResult |-> NoResult, error |-> "",
      currentPrompt |-> <<>>, uploadedImages |-> <<>>, description |-> <<>>,
      validationError |-> "", errorOverlays |-> 0 ]

\* script.js:457-459; reads counts the getItem calls that returned the
\* result now stored (observation only)
NewResultHandler(reads) == [result |-> NoResult, initialized |-> FALSE, reads |-> reads]

\* script.js:248
MinDescriptionLength == 10

\* script.js:240-254: the message shown, or none when the input is valid
validateInputs(description) ==
    LET trimmed == Trim(description) IN
    IF trimmed = <<>> THEN "Please enter a video description."
    ELSE IF Len(trimmed) < MinDescriptionLength
    THEN "Description should be at least 10 characters long."
    ELSE ""

\* script.js:328-330 and 84-87: the input event of the description field
InputDescription(v) ==
    /\ Alive
    /\ app.description # v
    /\ app' = [app EXCEPT !.description = v, !.currentPrompt = Trim(v)]
    /\ UNCHANGED <<isProcessing, currentJob, openaiCache, visionCache, apiKey, calls,
                   session, location, resultHandler, invocations>>

\* script.js:366-386 and 90-93
AddImages(images) ==
    /\ Alive
    /\ app.uploadedImages # images
    /\ app' = [app EXCEPT !.uploadedImages = images]
    /\ UNCHANGED <<isProcessing, currentJob, openaiCache, visionCache, apiKey, calls,
                   session, location, resultHandler, invocations>>

\* script.js:220-225
clearError(overlays) == IF overlays > 0 THEN overlays - 1 ELSE 0

\* script.js:389-416: handleGeneration up to its first suspension, with the
\* number of error overlays on the page when it is entered
DoHandleGeneration(overlays) ==
    IF app.isGenerating
    THEN /\ app' = [app EXCEPT !.errorOverlays = overlays]
         /\ UNCHANGED <<isProcessing, calls>>
    ELSE IF validateInputs(app.description) # ""
    THEN /\ app' = [app EXCEPT !.errorOverlays = overlays,
                               !.validationError = validateInputs(app.description)]
         /\ UNCHANGED <<isProcessing, calls>>
    ELSE /\ Len(calls) < MaxAppCalls
         /\ app' = [app EXCEPT !.isGenerating = TRUE,
                               !.errorOverlays = clearError(overlays)]
         /\ BeginGenerate(TRUE, app.currentPrompt, app.uploadedImages)

\* script.js:323: the generate button is clicked
handleGeneration ==
    /\ Alive
    /\ DoHandleGeneration(app.errorOverlays)
    /\ UNCHANGED <<currentJob, openaiCache, visionCache, apiKey, session, location,
                   resultHandler, invocations>>

\* isGenerating when the finally block is missing
GeneratingWithoutFinally == app.isGenerating

\* script.js:434-436: isGenerating as the finally block leaves it
GeneratingAfterFinally == FALSE

\* script.js:416-437: handleGeneration resumes with the settled call
HandleGenerationResume(c) ==
    /\ Alive
    /\ calls[c].pc = "settled"
    /\ IF calls[c].outcome = "resolved"
       THEN /\ app' = [app EXCEPT !.lastResult = calls[c].result,
                                  !.isGenerating = GeneratingAfterFinally]
            /\ session' = JSONStringify(calls[c].result)
            /\ location' = "result.html"
            /\ resultHandler' = NewResultHandler(0)
            /\ calls' = [calls EXCEPT ![c].pc = "done", ![c].delivered = TRUE]
       ELSE /\ app' = [app EXCEPT !.error = calls[c].error,
                                  !.errorOverlays = @ + 1,
                                  !.isGenerating = GeneratingAfterFinally]
            /\ calls' = [calls EXCEPT ![c].pc = "done"]
            /\ UNCHANGED <<session, location, resultHandler>>
    /\ UNCHANGED <<isProcessing, currentJob, openaiCache, visionCache, apiKey,
                   invocations>>

\* script.js:440-443
retryGeneration ==
    /\ Alive
    /\ app.errorOverlays > 0
    /\ DoHandleGeneration(clearError(app.errorOverlays))
    /\ UNCHANGED <<currentJob, openaiCache, visionCache, apiKey, session, location,
                   resultHandler, invocations>>

\* script.js:446-450; the calls in flight are marked (observation only)
cancelGeneration ==
    /\ Alive
    /\ isProcessing' = FALSE
    /\ currentJob' = "null"
    /\ app' = [app EXCEPT !.isGenerating = FALSE,
                          !.errorOverlays = clearError(@)]
    /\ calls' = [c \in 1..Len(calls) |->
                    IF calls[c].outcome = "pending"
                    THEN [calls[c] EXCEPT !.cancelled = TRUE] ELSE calls[c]]
    /\ UNCHANGED <<openaiCache, visionCache, apiKey, session, location,
                   resultHandler, invocations>>

(* ---------------- page loads and the results view ---------------- *)

\* script.js:623-634: the input view is loaded; the objects of the page
\* left behind are gone, session storage stays
LoadCreatePage ==
    /\ location' = "create.html"
    /\ isProcessing' = FALSE
    /\ currentJob' = "null"
    /\ openaiCache' = EmptyMap
    /\ visionCache' = EmptyMap
    /\ calls' = <<>>
    /\ app' = NewApp
    /\ resultHandler' = NewResultHandler(resultHandler.reads)

\* script.js:628-637 and 461-475: the results view is loaded and initialize runs
LoadResultPage ==
    /\ location = "result.html"
    /\ ~resultHandler.initialized
    /\ IF StoredResultPresent(session)
       THEN /\ resultHandler' = [ result |-> JSONParse(session),
                                  initialized |-> TRUE,
                                  reads |-> resultHandler.reads + 1 ]
            /\ UNCHANGED <<isProcessing, currentJob, openaiCache, visionCache, calls,
                           app, location>>
       ELSE LoadCreatePage
    /\ UNCHANGED <<apiKey, session, invocations>>

\* the user reloads the results view
ReloadResultPage ==
    /\ location = "result.html"
    /\ resultHandler.initialized
    /\ resultHandler.reads < MaxLoads
    /\ resultHandler' = NewResultHandler(resultHandler.reads)
    /\ UNCHANGED <<isProcessing, currentJob, openaiCache, visionCache, apiKey, calls,
                   app, session, location, invocations>>

\* the user opens the results view from the input view
OpenResultPage ==
    /\ Alive
    /\ resultHandler.reads < MaxLoads
    /\ location' = "result.html"
    /\ UNCHANGED <<isProcessing, currentJob, openaiCache, visionCache, apiKey, calls,
                   app, session, resultHandler, invocations>>

\* the user goes from the results view back to the input view
OpenCreatePage ==
    /\ location = "result.html"
    /\ resultHandler.initialized
    /\ LoadCreatePage
    /\ UNCHANGED <<apiKey, session, invocations>>

(* ---------------- vision intermediary (exports.handler) ---------------- *)

\* the body of an event: whether JSON.parse accepts it, and the prompt and
\* imageData of the parsed object (an empty sequence is the empty string)
EventBodies ==
    { [parses |-> FALSE, prompt |-> NoValue, imageData |-> NoValue],
      [parses |-> TRUE, prompt |-> NoValue, imageData |-> <<"d", "1">>],
      [parses |-> TRUE, prompt |-> <<>>, imageData |-> <<"d", "1">>],
      [parses |-> TRUE, prompt |-> <<"a">>, imageData |-> NoValue],
      [parses |-> TRUE, prompt |-> <<"a">>, imageData |-> <<"d", "1">>] }

\* the events the function is invoked with
HandlerEvents ==
    { [httpMethod |-> m, body |-> b] : m \in {"POST", "GET"}, b \in EventBodies }

\* what the vision provider can answer to the request of line 60
ProviderResponses ==
    { [kind |-> "ok", text |-> <<" ", "s">>],
      [kind |-> "api_error", text |-> NoValue],
      [kind |-> "network_error", text |-> NoValue],
      [kind |-> "malformed", text |-> NoValue] }

\* the ! operator of JavaScript on a string or undefined
Falsy(v) == v = NoValue \/ v = <<>>

\* the object the handler returns; body is the object handed to JSON.stringify
Reply(statusCode, body) == [statusCode |-> statusCode, body |-> body]

NoReply == Reply(0, [error |-> ""])

\* gemini-vision.js:89-103: the reply of the catch block
ErrorReply(message) ==
    Reply(500, [success |-> FALSE, error |-> message, fallback |-> TRUE])

\* gemini-vision.js:8-24: the reply given before the provider is called, or
\* NoReply when the handler goes on to the request of line 60
EarlyReply(event) ==
    IF event.httpMethod # "POST"
    THEN Reply(405, [error |-> "Method not allowed"])
    ELSE IF ~event.body.parses
    THEN ErrorReply("Unexpected token in JSON")
    ELSE IF Falsy(event.body.prompt) \/ Falsy(event.body.imageData)
    THEN Reply(400, [error |-> "Missing required fields: prompt and imageData"])
    ELSE NoReply

\* gemini-vision.js:68-103: the reply once the provider answered
LateReply(resp) ==
    CASE resp.kind = "ok" ->
             Reply(200, [success |-> TRUE, enhancedPrompt |-> Trim(resp.text),
                         aiSource |-> "image-vision"])
      [] resp.kind = "api_error" -> ErrorReply("Gemini API error")
      [] resp.kind = "network_error" -> ErrorReply("fetch failed")
      [] OTHER -> ErrorReply("Cannot read properties of undefined")

\* gemini-vision.js:6-66: the function is invoked and runs to its reply or
\* to the await of line 60
HandlerInvoke(event) ==
    /\ Len(invocations) < MaxInvocations
    /\ invocations' = Append(invocations,
           [ event |-> event,
             pc |-> IF EarlyReply(event) = NoReply THEN "fetch" ELSE "done",
             response |-> EarlyReply(event) ])
    /\ UNCHANGED <<isProcessing, currentJob, openaiCache, visionCache, apiKey, calls,
                   app, session, location, resultHandler>>

\* gemini-vision.js:68-103: the provider answered, or the fetch failed
HandlerProviderResponse(i, resp) ==
    /\ invocations[i].pc = "fetch"
    /\ invocations' = [invocations EXCEPT ![i].pc = "done",
                                          ![i].response = LateReply(resp)]
    /\ UNCHANGED <<isProcessing, currentJob, openaiCache, visionCache, apiKey, calls,
                   app, session, location, resultHandler>>

(* ---------------- specifications ---------------- *)

Init ==
    /\ isProcessing = FALSE
    /\ currentJob = "null"
    /\ openaiCache = EmptyMap
    /\ visionCache = EmptyMap
    /\ apiKey = TRUE
    /\ calls = <<>>
    /\ app = NewApp
    /\ session = NoBlob
    /\ location = "create.html"
    /\ resultHandler = NewResultHandler(0)
    /\ invocations = <<>>

\* scripts drive the orchestrator of one service instance
Next ==
    \/ \E userPrompt \in GeneratePrompts, images \in ImageLists :
           GenerateStart(userPrompt, images)
    \/ \E c \in 1..Len(calls), rnd \in DelaySamples : VisionCachedReturn(c, rnd)
    \/ \E c \in 1..Len(calls), resp \in SomeVisionResponses, rnd \in DelaySamples :
           VisionResponse(c, resp, rnd)
    \/ \E c \in 1..Len(calls), rnd \in DelaySamples : TextCachedReturn(c, rnd)
    \/ \E c \in 1..Len(calls) : TextThrow(c)
    \/ \E c \in 1..Len(calls), resp \in SomeTextResponses,
          rndPhrase \in SomePhraseSamples, rnd \in DelaySamples :
           TextResponse(c, resp, rndPhrase, rnd)
    \/ \E c \in 1..Len(calls), rnd \in FailSamples : TimerFires(c, rnd)
    \/ cancelJob
    \/ \E present \in BOOLEAN : SetApiKey(present)

Spec == Init /\ [][Next]_vars

\* the step call c is waiting for: the answer to its request, the delivery
\* of a value already known, or the expiry of its timer
CallProgress(c) ==
    /\ c \in 1..Len(calls)
    /\ \/ \E rnd \in DelaySamples : VisionCachedReturn(c, rnd)
       \/ \E resp \in SomeVisionResponses, rnd \in DelaySamples :
              VisionResponse(c, resp, rnd)
       \/ \E rnd \in DelaySamples : TextCachedReturn(c, rnd)
       \/ \E resp \in SomeTextResponses, rndPhrase \in SomePhraseSamples,
             rnd \in DelaySamples : TextResponse(c, resp, rndPhrase, rnd)
       \/ \E rnd \in FailSamples : TimerFires(c, rnd)

\* scripts drive the orchestrator with one prompt and the credential set
NextLive ==
    \/ \E userPrompt \in JobPrompts, images \in ImageLists :
           GenerateStart(userPrompt, images)
    \/ \E c \in 1..Len(calls), rnd \in DelaySamples : VisionCachedReturn(c, rnd)
    \/ \E c \in 1..Len(calls), resp \in SomeVisionResponses, rnd \in DelaySamples :
           VisionResponse(c, resp, rnd)
    \/ \E c \in 1..Len(calls), rnd \in DelaySamples : TextCachedReturn(c, rnd)
    \/ \E c \in 1..Len(calls), resp \in SomeTextResponses,
          rndPhrase \in SomePhraseSamples, rnd \in DelaySamples :
           TextResponse(c, resp, rndPhrase, rnd)
    \/ \E c \in 1..Len(calls), rnd \in FailSamples : TimerFires(c, rnd)
    \/ cancelJob

\* the orchestrator under the assumption that every request is eventually
\* answered or fails and every timer eventually fires
SpecLive ==
    Init /\ [][NextLive]_vars /\ \A c \in 1..MaxCalls : WF_vars(CallProgress(c))

\* scripts drive the text client of one service instance
NextText ==
    \/ \E userPrompt \in Prompts : EnhanceStart(userPrompt)
    \/ \E c \in 1..Len(calls), rnd \in DelaySamples : TextCachedReturn(c, rnd)
    \/ \E c \in 1..Len(calls) : TextThrow(c)
    \/ \E c \in 1..Len(calls), resp \in TextResponses,
          rndPhrase \in PhraseSamples, rnd \in DelaySamples :
           TextResponse(c, resp, rndPhrase, rnd)
    \/ \E present \in BOOLEAN : SetApiKey(present)

SpecText == Init /\ [][NextText]_vars

\* scripts drive the vision client of one service instance
NextVision ==
    \/ \E image \in ImageNames, userPrompt \in Prompts : AnalyzeStart(image, userPrompt)
    \/ \E c \in 1..Len(calls), rnd \in DelaySamples : VisionCachedReturn(c, rnd)
    \/ \E c \in 1..Len(calls), resp \in VisionResponses, rnd \in DelaySamples :
           VisionResponse(c, resp, rnd)

SpecVision == Init /\ [][NextVision]_vars

\* the user drives the page of the application
NextApp ==
    \/ \E v \in DescriptionValues : InputDescription(v)
    \/ \E images \in UploadValues : AddImages(images)
    \/ handleGeneration
    \/ retryGeneration
    \/ cancelGeneration
    \/ \E c \in 1..Len(calls) : HandleGenerationResume(c)
    \/ \E c \in 1..Len(calls), rnd \in DelaySamples : VisionCachedReturn(c, rnd)
    \/ \E c \in 1..Len(calls), resp \in SomeVisionResponses, rnd \in DelaySamples :
           VisionResponse(c, resp, rnd)
    \/ \E c \in 1..Len(calls), rnd \in DelaySamples : TextCachedReturn(c, rnd)
    \/ \E c \in 1..Len(calls), resp \in SomeTextResponses,
          rndPhrase \in SomePhraseSamples, rnd \in DelaySamples :
           TextResponse(c, resp, rndPhrase, rnd)
    \/ \E c \in 1..Len(calls), rnd \in FailSamples : TimerFires(c, rnd)

SpecApp == Init /\ [][NextApp]_vars

\* scripts drive the orchestrator with every delay of the job simulator
NextJob ==
    \/ \E userPrompt \in JobPrompts : GenerateStart(userPrompt, <<>>)
    \/ \E c \in 1..Len(calls), rnd \in AllDelaySamples : TextCachedReturn(c, rnd)
    \/ \E c \in 1..Len(calls), resp \in SomeTextResponses,
          rndPhrase \in SomePhraseSamples, rnd \in AllDelaySamples :
           TextResponse(c, resp, rndPhrase, rnd)
    \/ \E c \in 1..Len(calls), rnd \in FailSamples : TimerFires(c, rnd)
    \/ cancelJob

SpecJob == Init /\ [][NextJob]_vars

\* what the user types on the pages of the handoff
PageDescriptions == { <<" ", "A", " ", "d", "o", "g", " ", "r", "u", "n", "s">> }

\* the user drives the input view and the results view
NextPage ==
    \/ \E v \in PageDescriptions : InputDescription(v)
    \/ handleGeneration
    \/ \E c \in 1..Len(calls) : HandleGenerationResume(c)
    \/ \E c \in 1..Len(calls), rnd \in DelaySamples : TextCachedReturn(c, rnd)
    \/ \E c \in 1..Len(calls), resp \in SomeTextResponses,
          rndPhrase \in SomePhraseSamples, rnd \in DelaySamples :
           TextResponse(c, resp, rndPhrase, rnd)
    \/ \E c \in 1..Len(calls), rnd \in FailSamples : TimerFires(c, rnd)
    \/ OpenResultPage
    \/ LoadResultPage
    \/ ReloadResultPage
    \/ OpenCreatePage

SpecPage == Init /\ [][NextPage]_vars

\* the prompts and images the three entry points are exercised with together
ServicePrompts == { <<"a">>, <<"b">> }
ServiceImages == {"img1"}

\* scripts drive the orchestrator, the text client and the vision client of
\* one service instance
NextService ==
    \/ \E userPrompt \in ServicePrompts, images \in ImageLists :
           GenerateStart(userPrompt, images)
    \/ \E userPrompt \in ServicePrompts : EnhanceStart(userPrompt)
    \/ \E image \in ServiceImages, userPrompt \in ServicePrompts :
           AnalyzeStart(image, userPrompt)
    \/ \E c \in 1..Len(calls), rnd \in DelaySamples : VisionCachedReturn(c, rnd)
    \/ \E c \in 1..Len(calls), resp \in SomeVisionResponses, rnd \in DelaySamples :
           VisionResponse(c, resp, rnd)
    \/ \E c \in 1..Len(calls), rnd \in DelaySamples : TextCachedReturn(c, rnd)
    \/ \E c \in 1..Len(calls), resp \in SomeTextResponses,
          rndPhrase \in SomePhraseSamples, rnd \in DelaySamples :
           TextResponse(c, resp, rndPhrase, rnd)
    \/ \E c \in 1..Len(calls), rnd \in FailSamples : TimerFires(c, rnd)
    \/ cancelJob

SpecService == Init /\ [][NextService]_vars

\* the prompts, payloads and answers the cache key is exercised with
KeyPrompts == { <<"a">>, <<"A", " ">>, <<"a", "_", "b">> }
KeyImages == {"img3", "img4", "img5", "img6"}
KeyResponses ==
    { r \in VisionResponses : r.kind \in {"ok", "unavailable"} }

\* scripts drive the vision client with colliding and distinct keys
NextKey ==
    \/ \E image \in KeyImages, userPrompt \in KeyPrompts : AnalyzeStart(image, userPrompt)
    \/ \E c \in 1..Len(calls), rnd \in DelaySamples : VisionCachedReturn(c, rnd)
    \/ \E c \in 1..Len(calls), resp \in KeyResponses, rnd \in DelaySamples :
           VisionResponse(c, resp, rnd)

SpecKey == Init /\ [][NextKey]_vars

\* clients invoke the vision intermediary
NextHandler ==
    \/ \E event \in HandlerEvents : HandlerInvoke(event)
    \/ \E i \in 1..Len(invocations), resp \in ProviderResponses :
           HandlerProviderResponse(i, resp)

SpecHandler == Init /\ [][NextHandler]_vars

(* ---------------- properties ---------------- *)

GenerateCalls == {c \in 1..Len(calls) : calls[c].op = "generate"}
EnhanceCalls == {c \in 1..Len(calls) : calls[c].op = "enhance"}
AnalyzeCalls == {c \in 1..Len(calls) : calls[c].op = "analyze"}

\* C1: a generate call with a non-empty prompt and no images never invokes
\* the vision client, and when it resolves its promptData.aiSource is
\* 'text-only'
C1_NoImagesTextOnly ==
    \A c \in GenerateCalls :
        (calls[c].userPrompt # <<>> /\ calls[c].images = <<>>) =>
            /\ calls[c].visionCalls = 0
            /\ calls[c].visionRequests = 0
            /\ calls[c].outcome = "resolved" =>
                   calls[c].result.promptData.aiSource = "text-only"

C1_Witness ==
    \E c \in GenerateCalls :
        /\ calls[c].images = <<>>
        /\ calls[c].outcome = "resolved"
        /\ calls[c].textWay = "upstream"

\* C2: a generate call with at least one image that resolves carries
\* 'image-vision' and the vision client's result when the vision client
\* returned, and 'text-only-fallback' with a value the text client could
\* return for the same prompt when the vision client threw
C2_VisionOrFallback ==
    \A c \in GenerateCalls :
        (Len(calls[c].images) > 0 /\ calls[c].outcome = "resolved") =>
            /\ calls[c].visionOutcome \in {"returned", "threw"}
            /\ calls[c].visionOutcome = "returned" =>
                   /\ calls[c].result.promptData.aiSource = "image-vision"
                   /\ calls[c].result.promptData.enhancedPrompt = calls[c].visionValue
            /\ calls[c].visionOutcome = "threw" =>
                   /\ calls[c].result.promptData.aiSource = "text-only-fallback"
                   /\ calls[c].result.promptData.enhancedPrompt \in calls[c].textCanReturn

C2_Witness ==
    \E c, d \in GenerateCalls :
        /\ Len(calls[c].images) > 0 /\ calls[c].outcome = "resolved"
        /\ calls[c].visionOutcome = "threw"
        /\ Len(calls[d].images) > 0 /\ calls[d].outcome = "resolved"
        /\ calls[d].visionOutcome = "returned"


\* equality of two prompts after lowercasing and trimming
SameNormalised(p, q) == Trim(ToLowerCase(p)) = Trim(ToLowerCase(q))

\* two calls of the text client overlap: neither had finished when the other began
TextOverlap(c, d) ==
    /\ c # d
    /\ c \notin calls[d].textAfter
    /\ d \notin calls[c].textAfter

\* C3 as stated: any two calls of the text client with equal normalised
\* prompts, overlapping or not, cause at most one request in total, and the
\* second returns the string the first returned
C3_AtMostOneRequest ==
    \A c, d \in EnhanceCalls :
        (c < d /\ SameNormalised(calls[c].userPrompt, calls[d].userPrompt)) =>
            /\ calls[c].textRequests + calls[d].textRequests <= 1
            /\ (calls[c].outcome = "resolved" /\ calls[d].outcome = "resolved") =>
                   calls[d].textValue = calls[c].textValue

\* C3 amended: when the first call returned an upstream response or a cached
\* string before the second began, and no other call that requested the same
\* normalised prompt overlapped the first, the two cause at most one request
\* in total and the second returns the string the first returned
C3_CachedAfterSuccess ==
    \A c, d \in EnhanceCalls :
        ( /\ c \in calls[d].textAfter
          /\ SameNormalised(calls[c].userPrompt, calls[d].userPrompt)
          /\ calls[c].textWay \in {"upstream", "cached"}
          /\ ~ \E e \in EnhanceCalls :
                 /\ SameNormalised(calls[e].userPrompt, calls[c].userPrompt)
                 /\ calls[e].textRequests > 0
                 /\ TextOverlap(e, c) ) =>
            /\ calls[d].textRequests = 0
            /\ calls[c].textRequests + calls[d].textRequests <= 1
            /\ calls[d].outcome # "rejected"
            /\ calls[d].outcome = "resolved" =>
                   calls[d].textValue = calls[c].textValue

C3_Witness ==
    \E c, d \in EnhanceCalls :
        /\ c \in calls[d].textAfter
        /\ calls[c].userPrompt # calls[d].userPrompt
        /\ SameNormalised(calls[c].userPrompt, calls[d].userPrompt)
        /\ calls[c].textWay = "upstream"
        /\ calls[d].outcome = "resolved"

\* the trimmed contents of the successful responses of the endpoint
UpstreamTexts == { Trim(r.content) : r \in {x \in TextResponses : x.kind = "ok"} }

\* C4: a call that degrades to the heuristic returns the original prompt
\* followed by ', ' and one of the four phrases, and every cached value is
\* the trimmed content of a successful upstream response returned by a call
\* for that key, never a value of the heuristic
C4_HeuristicNeverCached ==
    /\ \A c \in EnhanceCalls :
           calls[c].textWay = "heuristic" =>
               /\ calls[c].outcome = "resolved"
               /\ calls[c].textValue \in HeuristicOutputs(calls[c].userPrompt)
    /\ \A k \in DOMAIN openaiCache :
           /\ openaiCache[k] \in UpstreamTexts
           /\ \A p \in Prompts : openaiCache[k] \notin HeuristicOutputs(p)
           /\ \E c \in EnhanceCalls :
                  /\ calls[c].textWay = "upstream"
                  /\ calls[c].textKind = "ok"
                  /\ Trim(ToLowerCase(calls[c].userPrompt)) = k
                  /\ calls[c].textValue = openaiCache[k]

C4_Witness ==
    \E c, d \in EnhanceCalls :
        /\ calls[c].textWay = "heuristic"
        /\ calls[d].textWay = "upstream"
        /\ SameNormalised(calls[c].userPrompt, calls[d].userPrompt)
        /\ openaiCache # EmptyMap

\* C5: a call of the text client that began with the credential set never
\* rejects; after a non-2xx response, a network error or a malformed 2xx
\* body it resolves with the heuristic enhancement of its prompt
C5_FailuresRecovered ==
    \A c \in EnhanceCalls :
        calls[c].textKeyed =>
            /\ calls[c].outcome # "rejected"
            /\ calls[c].pc # "textThrow"
            /\ calls[c].textKind \in {"http_error", "network_error", "malformed"} =>
                   /\ calls[c].outcome = "resolved"
                   /\ calls[c].textWay = "heuristic"
                   /\ calls[c].textValue \in HeuristicOutputs(calls[c].userPrompt)

C5_Witness ==
    \E c, d \in EnhanceCalls :
        /\ calls[c].textKind = "http_error" /\ calls[c].outcome = "resolved"
        /\ calls[d].textKind = "malformed" /\ calls[d].outcome = "resolved"

\* C6 as stated: a call of the text client that begins while the credential
\* is absent fails with the configuration error whatever the cache holds
C6_AlwaysConfigurationError ==
    \A c \in EnhanceCalls :
        ~calls[c].textKeyed =>
            /\ calls[c].textRequests = 0
            /\ calls[c].outcome # "resolved"
            /\ calls[c].outcome = "rejected" =>
                   calls[c].error = "OpenAI API key not configured"

\* C6 amended: a call that begins while the credential is absent and whose
\* normalised prompt is not cached fails with the configuration error,
\* issuing no request and not degrading to the heuristic; when the prompt is
\* cached the call returns the cached string, again without a request
C6_ConfigurationErrorOnMiss ==
    \A c \in EnhanceCalls :
        ~calls[c].textKeyed =>
            /\ calls[c].textRequests = 0
            /\ calls[c].textWay \notin {"upstream", "heuristic"}
            /\ ~calls[c].textHit =>
                   /\ calls[c].outcome # "resolved"
                   /\ calls[c].textWay \in {"none", "threw"}
                   /\ calls[c].outcome = "rejected" =>
                          /\ calls[c].error = "OpenAI API key not configured"
                          /\ calls[c].textValue = NoValue
            /\ calls[c].textHit =>
                   /\ calls[c].outcome # "rejected"
                   /\ calls[c].outcome = "resolved" =>
                          /\ calls[c].textWay = "cached"
                          /\ calls[c].textValue \in UpstreamTexts

C6_Witness ==
    \E c \in EnhanceCalls :
        /\ ~calls[c].textKeyed
        /\ ~calls[c].textHit
        /\ calls[c].outcome = "rejected"


\* the key of the vision cache a call of the vision client works on
AnalyzeKey(c) ==
    Trim(ToLowerCase(calls[c].userPrompt)) \o <<"_">>
        \o Substring0(ImageData(calls[c].images[1]), 100)

\* C7: on a vision-cache miss analyzeImageWithText rejects with an error,
\* returns no text and leaves the vision cache unchanged when the fetch
\* fails, the intermediary answers non-2xx, or answers 2xx with success
\* false; the vision cache is written only by a call answered 2xx with
\* success true
C7_VisionFailuresThrow ==
    [][ /\ \A c \in AnalyzeCalls :
               (calls[c].pc = "visionFetch" /\ calls'[c].pc # "visionFetch") =>
                   IF calls'[c].visionKind = "ok"
                   THEN /\ calls'[c].outcome = "resolved"
                        /\ visionCache' = MapSet(visionCache, AnalyzeKey(c),
                                                 calls'[c].visionValue)
                   ELSE /\ calls'[c].visionKind \in
                               {"http_error", "network_error", "unavailable"}
                        /\ calls'[c].outcome = "rejected"
                        /\ calls'[c].error # ""
                        /\ calls'[c].visionValue = NoValue
                        /\ visionCache' = visionCache
        /\ visionCache' # visionCache =>
               \E c \in AnalyzeCalls :
                   /\ calls[c].pc = "visionFetch"
                   /\ calls'[c].visionKind = "ok" ]_vars

C7_Witness ==
    \E c, d \in AnalyzeCalls :
        /\ calls[c].visionKind = "unavailable" /\ calls[c].outcome = "rejected"
        /\ calls[d].visionKind = "network_error" /\ calls[d].outcome = "rejected"

\* C8: one generate call invokes the vision client at most once and the text
\* client at most once, the text client after the vision client only when
\* the vision client threw and always with the original prompt, and no
\* client after the text client finished; it issues at most one request to
\* each endpoint
C8_SingleFallbackHop ==
    \A c \in GenerateCalls :
        /\ calls[c].visionCalls <= 1
        /\ calls[c].textCalls <= 1
        /\ calls[c].visionRequests <= 1
        /\ calls[c].textRequests <= 1
        /\ (calls[c].visionCalls = 1 /\ calls[c].textCalls = 1) =>
               calls[c].visionOutcome = "threw"
        /\ calls[c].textCalls = 1 => calls[c].textArg = calls[c].userPrompt
        /\ calls[c].clientsAfterText = 0

C8_Witness ==
    \E c \in GenerateCalls :
        /\ calls[c].visionOutcome = "threw"
        /\ calls[c].visionRequests = 1
        /\ calls[c].textRequests = 1
        /\ calls[c].userPrompt # Trim(ToLowerCase(calls[c].userPrompt))
        /\ calls[c].outcome = "resolved"

\* C9: when the text client throws, on the text path or in the fallback, or
\* the job simulator rejects, the generate call rejects with that error,
\* returns no outcome, and isProcessing is false as it rejects
C9_UnrecoveredErrorPropagates ==
    \A c \in GenerateCalls :
        /\ calls[c].textWay = "threw" =>
               /\ calls[c].outcome = "rejected"
               /\ calls[c].error = "OpenAI API key not configured"
               /\ calls[c].result = NoResult
               /\ calls[c].processingAtSettle = FALSE
        /\ calls[c].jobFailed =>
               /\ calls[c].outcome = "rejected"
               /\ calls[c].error = "Video generation failed: Network timeout"
               /\ calls[c].result = NoResult
               /\ calls[c].processingAtSettle = FALSE
        /\ calls[c].outcome = "rejected" =>
               (calls[c].textWay = "threw" \/ calls[c].jobFailed)

C9_Witness ==
    \E c, d \in GenerateCalls :
        /\ calls[c].site = "fallback" /\ calls[c].textWay = "threw"
        /\ calls[c].outcome = "rejected"
        /\ calls[d].jobFailed /\ calls[d].outcome = "rejected"

\* C10: when cancelGeneration runs while a generate call is in flight, the
\* outcome of that call is not delivered: handleGeneration neither stores it
\* in lastResult, nor writes it to session storage, nor redirects
C10_CancelledNotDelivered ==
    \A c \in GenerateCalls :
        calls[c].cancelled =>
            /\ ~calls[c].delivered
            /\ calls[c].outcome = "resolved" =>
                   /\ app.lastResult # calls[c].result
                   /\ session # JSONStringify(calls[c].result)

\* C11: the delay handed to the timer lies between 3000 and 6000
\* milliseconds, and the processingTime of a successful outcome is an integer
\* in 3000..6000 at most half a millisecond away from that delay
C11_DelayInRange ==
    \A c \in GenerateCalls :
        calls[c].generationData # NoData =>
            /\ 2 * 3000 <= calls[c].processingTime
            /\ calls[c].processingTime <= 2 * 6000
            /\ calls[c].outcome = "resolved" =>
                   LET t == calls[c].result.promptData.processingTime IN
                   /\ t \in 3000..6000
                   /\ 2 * t - calls[c].processingTime \in {-1, 0, 1}

C11_Witness ==
    \E c, d \in GenerateCalls :
        /\ calls[c].outcome = "resolved"
        /\ calls[c].processingTime = 2 * 6000 - 1
        /\ calls[c].result.promptData.processingTime = 6000
        /\ calls[d].outcome = "resolved"
        /\ calls[d].result.promptData.processingTime = 3000

\* C12: a successful outcome of a generate call has success true, format
\* 'MP4', and the originalPrompt, enhancedPrompt and aiSource of the
\* generation record built by that same call from its own prompt and the
\* text its own client returned, also when other generate calls overlap;
\* its model is 'gemini-vision-pro' exactly when aiSource is 'image-vision'
\* and 'openai-gpt' otherwise
C12_OutcomeMatchesRecord ==
    \A c \in GenerateCalls :
        calls[c].outcome = "resolved" =>
            LET r == calls[c].result
                g == calls[c].generationData
            IN  /\ r.success = TRUE
                /\ r.videoDetails.format = "MP4"
                /\ g.originalPrompt = calls[c].userPrompt
                /\ g.enhancedPrompt = IF calls[c].site = "vision"
                                      THEN calls[c].visionValue
                                      ELSE calls[c].textValue
                /\ g.aiSource \in {"image-vision", "text-only-fallback", "text-only"}
                /\ r.promptData.originalPrompt = g.originalPrompt
                /\ r.promptData.enhancedPrompt = g.enhancedPrompt
                /\ r.promptData.aiSource = g.aiSource
                /\ (r.promptData.model = "gemini-vision-pro") <=>
                       (r.promptData.aiSource = "image-vision")
                /\ (r.promptData.model = "openai-gpt") <=>
                       (r.promptData.aiSource # "image-vision")

\* a call that ran from start to success while an earlier call with another
\* prompt and another source was still in flight
C12_Witness ==
    \E c, d \in GenerateCalls :
        /\ d < c
        /\ calls[d].pc = "timer"
        /\ calls[c].outcome = "resolved"
        /\ calls[c].result.promptData.model = "gemini-vision-pro"
        /\ calls[d].generationData.aiSource = "text-only-fallback"
        /\ calls[d].userPrompt # calls[c].userPrompt

\* C13: every reply of the vision intermediary whose status is not 200 has
\* a 4xx or 5xx status and a body carrying success false, an error message
\* and fallback true; a 200 reply carries success true with enhancedPrompt
\* and aiSource 'image-vision'
C13_FailureRepliesCarryFallback ==
    \A i \in 1..Len(invocations) :
        invocations[i].pc = "done" =>
            LET r == invocations[i].response IN
            IF r.statusCode # 200
            THEN /\ r.statusCode \in 400..599
                 /\ "success" \in DOMAIN r.body
                 /\ r.body.success = FALSE
                 /\ "error" \in DOMAIN r.body
                 /\ "fallback" \in DOMAIN r.body
                 /\ r.body.fallback = TRUE
            ELSE /\ DOMAIN r.body = {"success", "enhancedPrompt", "aiSource"}
                 /\ r.body.success = TRUE
                 /\ r.body.aiSource = "image-vision"

\* a step that changes the stored result is the resumption of a
\* handleGeneration whose generate call resolved; it stores the JSON of that
\* call's outcome and redirects to the results view
BlobWrittenOnSuccess ==
    session' # session =>
        \E c \in 1..Len(calls) :
            /\ calls[c].fromApp
            /\ calls[c].pc = "settled"
            /\ calls[c].outcome = "resolved"
            /\ calls'[c].delivered
            /\ session' = JSONStringify(calls[c].result)
            /\ location' = "result.html"

\* initialize redirects to the input view when no result is stored
RedirectsWhenAbsent ==
    (location = "result.html" /\ ~resultHandler.initialized /\ session = NoBlob) =>
        /\ location' = "create.html"
        /\ resultHandler'.result = NoResult
        /\ resultHandler'.reads = resultHandler.reads

\* initialize reads a stored result once, shows it and leaves it stored
ReadsOncePerLoad ==
    /\ (location = "result.html" /\ ~resultHandler.initialized /\ session # NoBlob) =>
           /\ location' = "result.html"
           /\ session' = session
           /\ resultHandler'.initialized
           /\ JSONStringify(resultHandler'.result) = session
           /\ resultHandler'.reads = resultHandler.reads + 1
    /\ resultHandler'.reads # resultHandler.reads =>
           \/ location = "result.html" /\ ~resultHandler.initialized
           \/ session' # session /\ resultHandler'.reads = 0
           \/ location' = "result.html" /\ resultHandler'.reads = 0

\* C14 as stated: the stored result is written only by a handleGeneration
\* whose generate call resolved, as the JSON of that call's outcome;
\* initialize redirects to the input view when none is stored; and a stored
\* result is read once and no more
C14_ReadOncePerBlob ==
    [][ /\ BlobWrittenOnSuccess
        /\ RedirectsWhenAbsent
        /\ resultHandler'.reads <= 1 ]_vars

\* C14 amended: the stored result is written only by a handleGeneration
\* whose generate call resolved, as the JSON of that call's outcome;
\* initialize redirects to the input view when none is stored; each run of
\* initialize reads a stored result once and leaves it in storage, so every
\* later load of the results view reads it again
C14_ReadOncePerLoad ==
    [][ /\ BlobWrittenOnSuccess
        /\ RedirectsWhenAbsent
        /\ ReadsOncePerLoad ]_vars

C14_Witness ==
    /\ location = "result.html"
    /\ resultHandler.initialized
    /\ resultHandler.reads = 2
    /\ resultHandler.result.success
    /\ session = JSONStringify(resultHandler.result)

\* C15: a key present in the text cache or in the vision cache stays
\* present through every step of enhance, analyze, generate and cancelJob
C15_CacheEntriesStay ==
    [][ /\ \A k \in DOMAIN openaiCache : k \in DOMAIN openaiCache'
        /\ \A k \in DOMAIN visionCache : k \in DOMAIN visionCache' ]_vars

\* both caches hold a key and cancelJob ran while the only generate call
\* was in flight
C15_Witness ==
    /\ Cardinality(DOMAIN openaiCache) >= 1
    /\ Cardinality(DOMAIN visionCache) >= 1
    /\ Cardinality(GenerateCalls) = 1
    /\ \E c \in GenerateCalls : calls[c].pc = "timer" /\ ~isProcessing

\* the awaits a call can be suspended at right after it started
FirstSuspensions ==
    {"textFetch", "textCached", "textThrow", "visionFetch", "visionCached"}

\* C16: isProcessing is true right after any generate call starts and false
\* right after any generate call settles or cancelJob runs, however many
\* other generate calls are in flight, and it changes at no other step; a
\* generate call issued while another is in flight runs at once to its
\* first await and leaves the other calls as they are
C16_FlagFollowsLastEvent ==
    [][ /\ Len(calls') > Len(calls) =>
               /\ isProcessing'
               /\ calls'[Len(calls')].pc \in FirstSuspensions
               /\ calls'[Len(calls')].visionCalls + calls'[Len(calls')].textCalls = 1
               /\ \A c \in 1..Len(calls) : calls'[c] = calls[c]
        /\ \A c \in 1..Len(calls) :
               (calls[c].outcome = "pending" /\ calls'[c].outcome # "pending") =>
                   ~isProcessing'
        /\ (calls' = calls /\ apiKey' = apiKey) => ~isProcessing'
        /\ isProcessing' # isProcessing =>
               \/ Len(calls') > Len(calls)
               \/ calls' = calls
               \/ \E c \in 1..Len(calls) :
                      calls[c].outcome = "pending" /\ calls'[c].outcome # "pending"
      ]_vars

\* a call that started while an earlier one was in flight has resolved, the
\* earlier one is still in flight, and the flag is false
C16_Witness ==
    \E c, d \in GenerateCalls :
        /\ d < c
        /\ calls[d].outcome = "pending"
        /\ calls[c].outcome = "resolved"
        /\ ~isProcessing

\* C17: every generate call eventually settles, resolving with an outcome or
\* rejecting with an error, whether or not cancelJob runs meanwhile; once
\* settled it stays as it settled; and isProcessing is false whenever no
\* generate call is in flight
C17_EveryCallSettlesOnce ==
    /\ \A c \in 1..MaxCalls :
           (c <= Len(calls)) ~> (c <= Len(calls) /\ calls[c].outcome # "pending")
    /\ [][ \A c \in 1..Len(calls) :
               calls[c].outcome # "pending" =>
                   /\ calls'[c].outcome = calls[c].outcome
                   /\ calls'[c].result = calls[c].result
                   /\ calls'[c].error = calls[c].error ]_vars
    /\ [](\A c \in GenerateCalls :
              /\ calls[c].outcome = "resolved" =>
                     calls[c].result.success /\ calls[c].error = ""
              /\ calls[c].outcome = "rejected" =>
                     calls[c].result = NoResult /\ calls[c].error # "")
    /\ []((\A c \in GenerateCalls : calls[c].outcome # "pending") => ~isProcessing)

\* two overlapping calls have settled, one resolving and one rejecting
C17_Witness ==
    \E c, d \in GenerateCalls :
        /\ calls[c].outcome = "resolved" /\ calls[c].result.success
        /\ calls[d].outcome = "rejected" /\ calls[d].jobFailed
        /\ ~isProcessing

\* the first 100 characters of the payload of a call of the vision client
PayloadPrefix(c) == Substring0(ImageData(calls[c].images[1]), 100)

HasUnderscore(s) == \E i \in 1..Len(s) : s[i] = "_"

\* the call was served from the cache: it issued no request
ServedFromCache(c) == calls[c].visionRequests = 0

\* C18 as stated: a call of the vision client is served from the cache
\* exactly when a call that had succeeded before it began had a prompt equal
\* after lowercasing and trimming and a payload with the same first 100
\* characters
C18_HitIffSamePromptAndPrefix ==
    \A c \in AnalyzeCalls :
        ServedFromCache(c) <=>
            \E d \in calls[c].visionAfter :
                /\ SameNormalised(calls[d].userPrompt, calls[c].userPrompt)
                /\ PayloadPrefix(d) = PayloadPrefix(c)

\* C18 amended: a call of the vision client is served from the cache exactly
\* when a call that had succeeded before it began had the same key, the
\* normalised prompt, '_' and the first 100 characters of the payload, and
\* it then returns a description such a call returned; when neither prefix
\* contains '_' the keys are equal exactly when the normalised prompts and
\* the prefixes are
C18_HitIffSameKey ==
    \A c \in AnalyzeCalls :
        /\ ServedFromCache(c) <=>
               \E d \in calls[c].visionAfter : AnalyzeKey(d) = AnalyzeKey(c)
        /\ (ServedFromCache(c) /\ calls[c].outcome # "pending") =>
               /\ calls[c].outcome = "resolved"
               /\ \E d \in calls[c].visionAfter :
                      /\ AnalyzeKey(d) = AnalyzeKey(c)
                      /\ calls[d].visionValue = calls[c].visionValue
        /\ \A d \in calls[c].visionAfter :
               /\ ( /\ SameNormalised(calls[d].userPrompt, calls[c].userPrompt)
                    /\ PayloadPrefix(d) = PayloadPrefix(c) ) => ServedFromCache(c)
               /\ (~HasUnderscore(PayloadPrefix(c)) /\ ~HasUnderscore(PayloadPrefix(d))) =>
                      ( AnalyzeKey(d) = AnalyzeKey(c) <=>
                            /\ SameNormalised(calls[d].userPrompt, calls[c].userPrompt)
                            /\ PayloadPrefix(d) = PayloadPrefix(c) )

\* a call for one image got the description of another image with the same
\* first 100 characters, under a prompt that differs in case and blanks
C18_Witness ==
    \E c, d \in AnalyzeCalls :
        /\ d \in calls[c].visionAfter
        /\ calls[d].images # calls[c].images
        /\ calls[d].userPrompt # calls[c].userPrompt
        /\ PayloadPrefix(d) = PayloadPrefix(c)
        /\ Len(PayloadPrefix(c)) = 100
        /\ calls[d].visionKind = "ok"
        /\ calls[c].outcome = "resolved"
        /\ ServedFromCache(c)
        /\ calls[c].visionValue = calls[d].visionValue

\* the generate calls started by handleGeneration
AppCalls == {c \in GenerateCalls : calls[c].fromApp}

\* C19: at most one generate call started by handleGeneration is unsettled
\* at a time, isGenerating is true while such a call is unsettled, and it
\* is true only while a handleGeneration has not returned
C19_SingleFlight ==
    /\ Cardinality({c \in AppCalls : calls[c].outcome = "pending"}) <= 1
    /\ (\E c \in AppCalls : calls[c].outcome = "pending") => app.isGenerating
    /\ app.isGenerating => \E c \in AppCalls : calls[c].pc # "done"

\* C20: lastResult, the stored result and the location change only in the
\* step that delivers a resolved call, so a handleGeneration that fails
\* leaves them alone; one whose generate call rejected sets AppState.error
\* to the message of the error, one whose input is rejected starts no call,
\* and each leaves isGenerating false as it returns
C20_FailureLeavesResultAlone ==
    [][ /\ (app'.lastResult # app.lastResult \/ session' # session
                \/ location' # location) =>
               \E c \in AppCalls :
                   /\ calls[c].pc = "settled"
                   /\ calls[c].outcome = "resolved"
                   /\ calls'[c].delivered
        /\ \A c \in AppCalls :
               (calls[c].pc = "settled" /\ calls[c].outcome = "rejected"
                    /\ calls'[c].pc = "done") =>
                   /\ app'.error = calls[c].error
                   /\ app'.error # ""
                   /\ ~app'.isGenerating
                   /\ app'.lastResult = app.lastResult
                   /\ session' = session
                   /\ location' = location
        /\ app'.validationError # app.validationError =>
               /\ validateInputs(app.description) = app'.validationError
               /\ app'.validationError # ""
               /\ ~app'.isGenerating
               /\ calls' = calls
               /\ app'.lastResult = app.lastResult
               /\ session' = session
               /\ location' = location ]_vars

\* one handleGeneration was turned down by the validation and another saw
\* its generate call reject
C20_Witness ==
    /\ app.validationError # ""
    /\ app.error = "Video generation failed: Network timeout"
    /\ \E c \in AppCalls : calls[c].outcome = "rejected" /\ calls[c].pc = "done"
    /\ ~app.isGenerating
    /\ app.lastResult = NoResult
    /\ session = NoBlob
    /\ location = "create.html"

====
